---------------------------- MODULE Spec2Model ----------------------------
(***************************************************************************)
(* Model of the transcription router (lambdas/transcription-router/        *)
(* index.py), of the session combination it triggers, and of the           *)
(* combination utility (scripts/combine-session-transcripts.py).           *)
(*                                                                         *)
(* Strings that the code takes apart or puts together (S3 keys) are        *)
(* sequences of tokens: a key is the sequence of its '/'-separated parts,  *)
(* a part is the sequence of its tokens, and string concatenation is       *)
(* sequence concatenation.  Python dicts are functions on strings.  A      *)
(* missing or empty string is the empty sequence (both are falsy).         *)
(***************************************************************************)
EXTENDS Integers, Sequences, FiniteSets, TLC

(* ------------------------------ bounds --------------------------------- *)

\* Router invocations that may run concurrently.
NInvocations == 2

\* Chunk indices of the session: 1..NChunks.
NChunks == 2

\* Largest max_retries tried when the backoff executor is checked on its own.
MaxRetriesBound == 4

Procs == 1..NInvocations

(* --------------------------- python helpers ---------------------------- *)

\* dict.get(k, default)
Get(d, k, default) == IF k \in DOMAIN d THEN d[k] ELSE default

\* Truthiness of a string (a token sequence) : non-empty.
Truthy(s) == s /= <<>>

Min(a, b) == IF a <= b THEN a ELSE b

RECURSIVE Pow2(_)
Pow2(n) == IF n = 0 THEN 1 ELSE 2 * Pow2(n - 1)

\* str.replace(tok, '') on a token sequence.
Remove(s, tok) == SelectSeq(s, LAMBDA t : t /= tok)

\* s.startswith(pre) / s.endswith(suf) on sequences.
StartsWith(s, pre) ==
    /\ Len(s) >= Len(pre)
    /\ SubSeq(s, 1, Len(pre)) = pre

EndsWith(s, suf) ==
    /\ Len(s) >= Len(suf)
    /\ SubSeq(s, Len(s) - Len(suf) + 1, Len(s)) = suf

(* ------------------------------ S3 keys -------------------------------- *)

Bucket == "b"
User == <<"u1">>
Session == <<"s1">>

\* The decimal numeral of n, and the tokens that are numerals (\d+).
Numeral(n) == ToString(n)
IsDigits(t) == \E n \in 0..NChunks : Numeral(n) = t
IntOf(t) == CHOOSE n \in 0..NChunks : Numeral(n) = t

\* users/{u}/audio/sessions/{s}/chunk-{i}{ext}
SourceKey(i, ext) ==
    << <<"users">>, User, <<"audio">>, <<"sessions">>, Session,
       <<"chunk-", Numeral(i), ext>> >>

\* users/{user_id}/audio/sessions/{session_id}/metadata.json
MetadataKey(user_id, session_id) ==
    << <<"users">>, user_id, <<"audio">>, <<"sessions">>, session_id,
       <<"metadata", ".json">> >>

\* users/{user_id}/transcripts/{session_id}-{chunk_name}.json
TranscriptKey(user_id, session_id, chunk_name) ==
    << <<"users">>, user_id, <<"transcripts">>,
       session_id \o <<"-">> \o chunk_name \o <<".json">> >>

\* users/{user_id}/transcripts/{session_id}.json
SessionKey(user_id, session_id) ==
    << <<"users">>, user_id, <<"transcripts">>, session_id \o <<".json">> >>

\* transcripts/{s3_key}.json : the fallback output path.
FallbackKey(s3_key) ==
    << <<"transcripts">> >> \o SubSeq(s3_key, 1, Len(s3_key) - 1)
       \o << s3_key[Len(s3_key)] \o <<".json">> >>

\* users/{user_id}/{dir}/{session_id}-chunk-   (a key prefix)
ChunkPrefix(user_id, dir, session_id) ==
    << <<"users">>, user_id, <<dir>>, session_id \o <<"-", "chunk-">> >>

\* key.startswith(prefix), for a prefix that ends inside its last part.
HasPrefix(key, prefix) ==
    LET n == Len(prefix) IN
    /\ Len(key) >= n
    /\ SubSeq(key, 1, n - 1) = SubSeq(prefix, 1, n - 1)
    /\ StartsWith(key[n], prefix[n])

(* ------------------------------ requests ------------------------------- *)

\* The two event formats the router accepts, and the EventBridge wrapper.
FlatEvent(key, fb) == [s3_bucket |-> Bucket, s3_key |-> key, force_batch |-> fb]
NestedEvent(key) == [s3Location |-> [bucket |-> Bucket, key |-> key]]
WrappedEvent(key) == [detail |-> [s3_bucket |-> Bucket, s3_key |-> key]]

\* A key that does not have the users/.../audio/sessions/... shape.
ForeignKey == << <<"uploads">>, <<"a", ".webm">> >>

\* The requests an invocation may receive.
Events ==
    {FlatEvent(SourceKey(i, ".webm"), FALSE) : i \in 1..NChunks}
        \cup {FlatEvent(SourceKey(1, ".webm"), TRUE),
              NestedEvent(SourceKey(1, ".webm")),
              WrappedEvent(SourceKey(1, ".webm")),
              FlatEvent(ForeignKey, FALSE),
              [s3_bucket |-> Bucket]}

\* lambda_handler: the EventBridge detail, or the event itself.
EventData(ev) == IF "detail" \in DOMAIN ev THEN ev["detail"] ELSE ev

ForceBatch(event_data) == Get(event_data, "force_batch", FALSE)

\* send_to_fastapi: bucket and key, from either format.
UsesLocation(event_data) ==
    /\ Get(event_data, "s3_bucket", "") = ""
    /\ "s3Location" \in DOMAIN event_data

S3BucketOf(event_data) ==
    IF UsesLocation(event_data)
    THEN Get(event_data["s3Location"], "bucket", "")
    ELSE Get(event_data, "s3_bucket", "")

S3KeyOf(event_data) ==
    IF UsesLocation(event_data)
    THEN Get(event_data["s3Location"], "key", <<>>)
    ELSE Get(event_data, "s3_key", <<>>)

MissingLocation(event_data) ==
    S3BucketOf(event_data) = "" \/ ~Truthy(S3KeyOf(event_data))

\* s3_key.startswith('users/') and '/audio/sessions/' in s3_key, len(parts) >= 5
HasUserShape(s3_key) ==
    /\ Len(s3_key) >= 2
    /\ s3_key[1] = <<"users">>
    /\ \E i \in 2..(Len(s3_key) - 2) :
          s3_key[i] = <<"audio">> /\ s3_key[i + 1] = <<"sessions">>
    /\ Len(s3_key) >= 5

UserId(s3_key) == IF HasUserShape(s3_key) THEN s3_key[2] ELSE <<>>
SessionId(s3_key) == IF HasUserShape(s3_key) THEN s3_key[5] ELSE <<>>

\* ChunkName with the file name taken as it is.
ChunkName_KeepExtension(s3_key) ==
    IF HasUserShape(s3_key) THEN s3_key[Len(s3_key)] ELSE <<>>

\* parts[-1].replace('.webm', '')
ChunkName(s3_key) ==
    IF HasUserShape(s3_key) THEN Remove(s3_key[Len(s3_key)], ".webm") ELSE <<>>

\* if user_id and session_id and chunk_name
Parsed(s3_key) ==
    Truthy(UserId(s3_key)) /\ Truthy(SessionId(s3_key)) /\ Truthy(ChunkName(s3_key))

\* The key of s3_output_path.
OutputKey(s3_key) ==
    IF Parsed(s3_key)
    THEN TranscriptKey(UserId(s3_key), SessionId(s3_key), ChunkName(s3_key))
    ELSE FallbackKey(s3_key)

\* request_data, the body posted to /transcribe-s3.
RequestData(event_data) ==
    [s3_input_path |-> [bucket |-> S3BucketOf(event_data),
                        key |-> S3KeyOf(event_data)],
     s3_output_path |-> [bucket |-> S3BucketOf(event_data),
                         key |-> OutputKey(S3KeyOf(event_data))],
     return_text |-> TRUE]

\* send_to_sqs: the message body built from a dict.
Normalized(event_data) ==
    IF "s3Location" \in DOMAIN event_data /\ "s3_bucket" \notin DOMAIN event_data
    THEN [s3_bucket |-> Get(event_data["s3Location"], "bucket", ""),
          s3_key |-> Get(event_data["s3Location"], "key", <<>>)] @@ event_data
    ELSE event_data

MessageBody(event_data) ==
    [queued_at |-> "utcnow", processing_type |-> "batch"] @@ Normalized(event_data)

Message(event_data) ==
    [body |-> MessageBody(event_data),
     event_type |-> Get(event_data, "event_type", "audio_upload")]

(* --------------------------- backoff executor -------------------------- *)

\* Delays are in milliseconds; a jitter factor is in thousandths.
Seconds(n) == n * 1000

\* delay * (0.5 + random.random() * 0.5): a factor in [0.5, 1.0).
JitterFactors(jitter) == IF jitter THEN {500, 999} ELSE {1000}

\* Delay with a linear instead of an exponential backoff.
Delay_Linear(base_delay, max_delay, attempt, factor) ==
    (Min(base_delay * (attempt + 1), max_delay) * factor) \div 1000

\* min(base_delay * (2 ** attempt), max_delay), then the jitter.
Delay(base_delay, max_delay, attempt, factor) ==
    (Min(base_delay * Pow2(attempt), max_delay) * factor) \div 1000

\* What one call of func() may do: return (True, ...), return (False, ...)
\* or raise.  try_fastapi_transcription catches everything it raises.
FuncOutcomes(func) ==
    IF func = "transcribe" THEN {"success", "failure"}
    ELSE {"success", "failure", "exception"}

NoRetry ==
    [func |-> "none", max_retries |-> 0, base_delay |-> 0, max_delay |-> 0,
     jitter |-> FALSE, attempt |-> 0, calls |-> 0, delays |-> <<>>,
     status |-> "none"]

\* The call retry_with_exponential_backoff(func, max_retries, ...).
RetryCall(func, max_retries, base_delay, max_delay, jitter) ==
    [func |-> func, max_retries |-> max_retries, base_delay |-> base_delay,
     max_delay |-> max_delay, jitter |-> jitter, attempt |-> 0, calls |-> 0,
     delays |-> <<>>, status |-> "running"]

\* LastAttempt with the loop bound off by one (range(max_retries + 2)).
LastAttempt_OffByOne(r) == r.attempt = r.max_retries + 1

\* Whether this attempt is the last one of the loop.
LastAttempt(r) == r.attempt = r.max_retries

\* RetryStep without the return on success: the loop goes on to its end.
RetryStep_NoReturn(r, out, factor) ==
    IF r.attempt = r.max_retries
    THEN [r EXCEPT !.calls = @ + 1,
                   !.status = IF out = "success" THEN "returned" ELSE "raised"]
    ELSE [r EXCEPT !.calls = @ + 1,
                   !.delays = Append(@, (Min(r.base_delay * Pow2(r.attempt),
                                             r.max_delay) * factor) \div 1000),
                   !.attempt = @ + 1]

\* One iteration of the for loop, func() having ended with out.
RetryStep(r, out, factor) ==
    IF out = "success"
    THEN [r EXCEPT !.calls = @ + 1, !.status = "returned"]
    ELSE IF LastAttempt(r)
    THEN [r EXCEPT !.calls = @ + 1, !.status = "raised"]
    ELSE [r EXCEPT !.calls = @ + 1,
                   !.delays = Append(@, Delay(r.base_delay, r.max_delay,
                                              r.attempt, factor)),
                   !.attempt = @ + 1]

(* ------------------------------ responses ------------------------------ *)

NoResponse == [statusCode |-> 0, method |-> "none"]
SkippedResponse == [statusCode |-> 200, method |-> "skipped"]
DirectResponse == [statusCode |-> 200, method |-> "direct-with-retry"]
SqsResponse == [statusCode |-> 200, method |-> "sqs"]
ErrorResponse == [statusCode |-> 500, method |-> "error"]

\* HandlerResponse with the exception raised again instead of answered.
HandlerResponse_Reraise(error) == [statusCode |-> 0, method |-> "raised"]

\* lambda_handler's except clause: what it returns for an exception that
\* reached it.
HandlerResponse(error) == ErrorResponse

\* ResponseAfterCheck letting a failed completion check fail the request.
ResponseAfterCheck_Propagate(c) ==
    IF c.failed THEN ErrorResponse ELSE DirectResponse

\* What send_to_fastapi returns after a successful transcription, c being
\* what the completion check left (its result, whether it failed).
ResponseAfterCheck(c) == DirectResponse

(* ------------------------- transcript combiner ------------------------- *)

\* Text is a sequence of tokens, each a word or one blank " ".
\* str.strip() and str.split().
RECURSIVE LStrip(_)
LStrip(text) ==
    IF text /= <<>> /\ text[1] = " " THEN LStrip(Tail(text)) ELSE text

RECURSIVE RStrip(_)
RStrip(text) ==
    IF text /= <<>> /\ text[Len(text)] = " "
    THEN RStrip(SubSeq(text, 1, Len(text) - 1))
    ELSE text

Strip(text) == RStrip(LStrip(text))

Split(text) == SelectSeq(text, LAMBDA w : w /= " ")

\* A sub-chunk {'timestamp': [start, end], 'text': text} of a chunk transcript.
SubChunk(start, end, text) == [timestamp |-> <<start, end>>, text |-> text]

\* Chunk transcripts as the inference service may write them: with one or
\* several timed sub-chunks, with text only (no 'chunks'), and with a
\* sub-chunk that has no timestamp.  Times are whole seconds.
THello ==
    [text |-> <<"hello", " ", "world">>,
     chunks |-> <<SubChunk(0, 2, <<"hello", " ", "world">>)>>,
     device |-> "cuda", model |-> "large", timestamp |-> "t1"]

TFoo ==
    [text |-> <<"foo", " ">>,
     chunks |-> <<SubChunk(0, 3, <<"foo">>)>>,
     device |-> "cpu", model |-> "small", timestamp |-> "t2"]

TTwo ==
    [text |-> <<"a", " ", "b">>,
     chunks |-> <<SubChunk(0, 1, <<"a">>), SubChunk(1, 4, <<"b">>)>>,
     device |-> "cuda", model |-> "large", timestamp |-> "t3"]

TPlain == [text |-> <<"bar">>, device |-> "cpu", timestamp |-> "t4"]

TNoTime == [text |-> <<" ">>, chunks |-> <<[text |-> <<"x">>]>>]

Transcripts == {THello, TFoo, TTwo, TPlain, TNoTime}

\* if not transcript or 'chunks' not in transcript: continue
NoChunks(transcript) ==
    DOMAIN transcript = {} \/ "chunks" \notin DOMAIN transcript

\* 'timestamp' in chunk and len(chunk['timestamp']) == 2
HasTimestamp(chunk) ==
    "timestamp" \in DOMAIN chunk /\ Len(chunk["timestamp"]) = 2

\* The word objects of a paragraph; a time is the fraction <<num, den>>.
WordObjects(words, start_time, end_time) ==
    [j \in 1..Len(words) |->
        [w |-> words[j],
         t |-> <<start_time * Len(words) + (j - 1) * (end_time - start_time),
                 Len(words)>>]]

\* What the inner loop appends to combined['chunks'] and
\* combined['paragraphs'] for one transcript.
ShiftedChunks(transcript, current_time_offset) ==
    LET timed == SelectSeq(transcript["chunks"], HasTimestamp) IN
    [i \in 1..Len(timed) |->
        [timestamp |-> <<current_time_offset + timed[i]["timestamp"][1],
                         current_time_offset + timed[i]["timestamp"][2]>>,
         text |-> timed[i]["text"]]]

Paragraphs(transcript, current_time_offset) ==
    LET timed == SelectSeq(transcript["chunks"], HasTimestamp) IN
    [i \in 1..Len(timed) |->
        LET start_time == current_time_offset + timed[i]["timestamp"][1]
            end_time == current_time_offset + timed[i]["timestamp"][2]
        IN [speaker |-> "Speaker", start |-> start_time, end |-> end_time,
            text |-> timed[i]["text"],
            words |-> WordObjects(Split(timed[i]["text"]), start_time, end_time)]]

\* chunk_duration = 5.0 unless the last sub-chunk has a timestamp.
FallbackDuration == 5

\* ChunkDuration with the last sub-chunk's end never looked at.
ChunkDuration_Fixed(transcript) == FallbackDuration

\* What current_time_offset advances by after a transcript.
ChunkDuration(transcript) ==
    LET chunks == Get(transcript, "chunks", <<>>) IN
    IF chunks /= <<>> /\ HasTimestamp(chunks[Len(chunks)])
    THEN chunks[Len(chunks)]["timestamp"][2]
    ELSE FallbackDuration

\* CombineStep with the texts joined without the blank between them.
CombineStep_NoSeparator(combined, transcript) ==
    IF NoChunks(transcript) THEN combined
    ELSE [combined EXCEPT
            !.text = @ \o Strip(Get(transcript, "text", <<>>)),
            !.chunks = @ \o ShiftedChunks(transcript, combined.current_time_offset),
            !.paragraphs = @ \o Paragraphs(transcript, combined.current_time_offset),
            !.current_time_offset = @ + ChunkDuration(transcript)]

\* One iteration of the loop over chunk_transcripts.
CombineStep(combined, transcript) ==
    IF NoChunks(transcript) THEN combined
    ELSE LET chunk_text == Strip(Get(transcript, "text", <<>>))
             offset == combined.current_time_offset
         IN [combined EXCEPT
               !.text = IF chunk_text = <<>> THEN @
                        ELSE IF @ /= <<>> THEN @ \o <<" ">> \o chunk_text
                        ELSE chunk_text,
               !.chunks = @ \o ShiftedChunks(transcript, offset),
               !.paragraphs = @ \o Paragraphs(transcript, offset),
               !.current_time_offset = @ + ChunkDuration(transcript)]

RECURSIVE CombineLoop(_, _)
CombineLoop(combined, chunk_transcripts) ==
    IF chunk_transcripts = <<>> THEN combined
    ELSE CombineLoop(CombineStep(combined, chunk_transcripts[1]),
                     Tail(chunk_transcripts))

\* The combined transcript of a non-empty list of chunk transcripts.
CombineAll(chunk_transcripts) ==
    LET c == CombineLoop([text |-> <<>>, chunks |-> <<>>, paragraphs |-> <<>>,
                          current_time_offset |-> 0], chunk_transcripts)
    IN [text |-> c.text,
        chunks |-> c.chunks,
        paragraphs |-> c.paragraphs,
        metadata |-> [total_chunks |-> Len(chunk_transcripts),
                      duration |-> c.current_time_offset,
                      wordCount |-> Len(Split(c.text))],
        device |-> Get(chunk_transcripts[1], "device", "unknown"),
        model |-> Get(chunk_transcripts[1], "model", "unknown"),
        timestamp |-> Get(chunk_transcripts[Len(chunk_transcripts)],
                          "timestamp", "")]

\* combine_transcripts of the combination utility: {} for no transcripts.
combine_transcripts(chunk_transcripts) ==
    IF chunk_transcripts = <<>> THEN <<>> ELSE CombineAll(chunk_transcripts)

(* ------------------------------- state --------------------------------- *)

VARIABLES
    meta,           \* the session's metadata.json: <<>> absent, <<n>> chunkCount n
    objects,        \* keys of the transcript objects in the bucket
    sessionObj,     \* users/u/transcripts/s.json: <<>> absent, <<content>>
    sessionWrites,  \* put_object calls that have written the session key
    contents,       \* what get_object returns for each chunk transcript key
    pc,             \* where each invocation is
    event,          \* the event each invocation received
    server_url,     \* get_fastapi_server_url()'s result (<<>> is None)
    retry,          \* the locals of retry_with_exponential_backoff
    chk,            \* the locals of check_session_completion and the combination
    response,       \* what lambda_handler returned
    hist            \* what the invocation has done so far (calls it made)

shared == <<meta, objects, sessionObj, sessionWrites, contents>>
locals == <<pc, event, server_url, retry, chk, response, hist>>
vars == <<meta, objects, sessionObj, sessionWrites, contents,
          pc, event, server_url, retry, chk, response, hist>>

ServerUrl == <<"http://", "10.0.0.1", ":", "8000">>

NoEvent == [none |-> TRUE]

NoCheck ==
    [expected |-> 0, existing |-> 0, files |-> <<>>, transcripts |-> <<>>,
     next |-> 1, ret |-> "none", head |-> "none", failed |-> FALSE,
     wrote |-> FALSE]

NoHist ==
    [discover |-> 0, health |-> 0, healthy |-> FALSE,
     fastapi |-> 0, head |-> 0, head_out |-> "none", posts |-> 0, posts_ok |-> 0,
     exhausted |-> FALSE, checks |-> 0, sent |-> <<>>, sends |-> 0,
     raised |-> "none"]

\* The chunk transcript keys that other writers (the batch consumer, an older
\* deployment writing under transcriptions/) may put into the bucket.
EnvKeys ==
    {TranscriptKey(User, Session, <<"chunk-", Numeral(i)>>) : i \in 1..NChunks}
        \cup {<< <<"users">>, User, <<"transcriptions">>,
                 Session \o <<"-", "chunk-", Numeral(1), ".json">> >>,
              TranscriptKey(User, Session, <<"chunk-", "x">>)}

\* The keys whose objects the combination may download, and what each holds
\* when nothing else is said.
ChunkKeys ==
    {k \in EnvKeys : k[4][Len(k[4]) - 1] \in {Numeral(i) : i \in 1..NChunks}}

DefaultContents ==
    [k \in ChunkKeys |->
        IF k[3] = <<"transcriptions">> THEN TTwo
        ELSE IF k[4][Len(k[4]) - 1] = Numeral(1) THEN THello
        ELSE TFoo]

Init ==
    /\ meta \in {<<>>} \cup {<<n>> : n \in 0..NChunks}
    /\ objects = {}
    /\ sessionObj = <<>>
    /\ sessionWrites = 0
    /\ contents = DefaultContents
    /\ pc = [p \in Procs |-> "idle"]
    /\ event = [p \in Procs |-> NoEvent]
    /\ server_url = [p \in Procs |-> <<>>]
    /\ retry = [p \in Procs |-> NoRetry]
    /\ chk = [p \in Procs |-> NoCheck]
    /\ response = [p \in Procs |-> NoResponse]
    /\ hist = [p \in Procs |-> NoHist]

(* ------------------------------- router -------------------------------- *)

\* AfterForceBatch with the force_batch flag ignored.
AfterForceBatch_Ignored(event_data) == "discover"

\* Where lambda_handler goes once it has read force_batch.
AfterForceBatch(event_data) ==
    IF ForceBatch(event_data) THEN "sqs" ELSE "discover"

\* lambda_handler is invoked with ev and reads force_batch.
Invoke(p, ev) ==
    /\ pc[p] = "idle"
    /\ event' = [event EXCEPT ![p] = ev]
    /\ pc' = [pc EXCEPT ![p] = AfterForceBatch(EventData(ev))]
    /\ UNCHANGED <<shared, server_url, retry, chk, response, hist>>

\* get_fastapi_server_url(): a running instance's URL, or None (also on error).
Discover(p) ==
    /\ pc[p] = "discover"
    /\ \E url \in {<<>>, ServerUrl} :
          /\ server_url' = [server_url EXCEPT ![p] = url]
          /\ pc' = [pc EXCEPT ![p] = IF Truthy(url) THEN "health" ELSE "sqs"]
    /\ hist' = [hist EXCEPT ![p].discover = @ + 1]
    /\ UNCHANGED <<shared, event, retry, chk, response>>

\* check_server_health(server_url): True on a 200 within the timeout.
HealthCheck(p) ==
    /\ pc[p] = "health"
    /\ \E healthy \in BOOLEAN :
          /\ pc' = [pc EXCEPT ![p] = IF healthy THEN "fastapi" ELSE "sqs"]
          /\ hist' = [hist EXCEPT ![p].health = @ + 1, ![p].healthy = healthy]
    /\ UNCHANGED <<shared, event, server_url, retry, chk, response>>

\* The retry call send_to_fastapi makes.
TranscribeRetry == RetryCall("transcribe", 3, Seconds(1), Seconds(8), TRUE)

\* send_to_fastapi up to the idempotency check: bucket and key, the parse.
SendToFastapi(p) ==
    /\ pc[p] = "fastapi"
    /\ LET ed == EventData(event[p]) IN
       IF MissingLocation(ed)
       THEN /\ pc' = [pc EXCEPT ![p] = "done"]
            /\ response' = [response EXCEPT ![p] = HandlerResponse("ValueError")]
            /\ UNCHANGED retry
       ELSE IF Parsed(S3KeyOf(ed))
       THEN /\ pc' = [pc EXCEPT ![p] = "head"]
            /\ UNCHANGED <<response, retry>>
       ELSE /\ pc' = [pc EXCEPT ![p] = "retry"]
            /\ retry' = [retry EXCEPT ![p] = TranscribeRetry]
            /\ UNCHANGED response
    /\ hist' = [hist EXCEPT
          ![p].fastapi = @ + 1,
          ![p].raised = IF MissingLocation(EventData(event[p]))
                        THEN "ValueError" ELSE @]
    /\ UNCHANGED <<shared, event, server_url, chk>>

\* What s3.head_object may do: return, raise NoSuchKey, raise another error.
HeadOutcomes(exists) == IF exists THEN {"ok", "error"} ELSE {"NoSuchKey", "error"}

\* AfterHeadChunk without the early return.
AfterHeadChunk_NeverSkip(out) == "retry"

\* AfterHeadChunk going on only when the object is known to be absent.
AfterHeadChunk_FailClosed(out) == IF out = "NoSuchKey" THEN "retry" ELSE "done"

\* After the idempotency check: skip when the object is there, else go on
\* (also when the check itself failed).
AfterHeadChunk(out) == IF out = "ok" THEN "done" ELSE "retry"

\* The idempotency check: head_object on the transcript key.
HeadChunk(p) ==
    /\ pc[p] = "head"
    /\ \E out \in HeadOutcomes(OutputKey(S3KeyOf(EventData(event[p]))) \in objects) :
          /\ pc' = [pc EXCEPT ![p] = AfterHeadChunk(out)]
          /\ response' = [response EXCEPT ![p] =
                IF AfterHeadChunk(out) = "done" THEN SkippedResponse ELSE @]
          /\ retry' = [retry EXCEPT ![p] =
                IF AfterHeadChunk(out) = "retry" THEN TranscribeRetry ELSE @]
          /\ hist' = [hist EXCEPT ![p].head = @ + 1, ![p].head_out = out]
    /\ UNCHANGED <<shared, event, server_url, chk>>

\* AfterRetry with the completion check made after every successful call.
AfterRetry_AlwaysCheck(status, s3_key) ==
    IF status = "raised" THEN "sqs" ELSE "meta"

\* AfterRetry without the fallback to the queue.
AfterRetry_NoFallback(status, s3_key) ==
    IF status = "returned" /\ Truthy(UserId(s3_key)) /\ Truthy(SessionId(s3_key))
    THEN "meta"
    ELSE "respond"

\* Where send_to_fastapi goes when the retry call has ended.
AfterRetry(status, s3_key) ==
    IF status = "raised" THEN "sqs"
    ELSE IF Truthy(UserId(s3_key)) /\ Truthy(SessionId(s3_key)) THEN "meta"
    ELSE "respond"

\* One attempt of the retry loop; when it was the last, the executor returns
\* or raises to its caller.  A successful transcription has written the
\* transcript to s3_output_path.
RetryAttempt(p) ==
    /\ pc[p] = "retry"
    /\ retry[p].status = "running"
    /\ \E out \in FuncOutcomes(retry[p].func),
          factor \in JitterFactors(retry[p].jitter) :
          LET r == RetryStep(retry[p], out, factor)
              s3_key == S3KeyOf(EventData(event[p]))
              to == AfterRetry(r.status, s3_key)
          IN
          IF retry[p].func = "transcribe"
          THEN /\ retry' = [retry EXCEPT ![p] =
                               IF r.status = "running" THEN r ELSE NoRetry]
               /\ pc' = [pc EXCEPT ![p] =
                            IF r.status = "running" THEN "retry" ELSE to]
               /\ hist' = [hist EXCEPT
                     ![p].posts = @ + 1,
                     ![p].posts_ok = IF out = "success" THEN @ + 1 ELSE @,
                     ![p].exhausted = (r.status = "raised"),
                     ![p].checks = IF r.status = "returned" /\ to = "meta"
                                   THEN @ + 1 ELSE @]
               /\ objects' = IF out = "success"
                             THEN objects \cup {OutputKey(s3_key)}
                             ELSE objects
          ELSE /\ retry' = [retry EXCEPT ![p] = r]
               /\ pc' = [pc EXCEPT ![p] =
                            IF r.status = "running" THEN "retry" ELSE "retry_done"]
               /\ UNCHANGED <<hist, objects>>
    /\ UNCHANGED <<meta, sessionObj, sessionWrites, contents,
                    event, server_url, chk, response>>

\* SqsArgument with the fallback passing request_data on.
SqsArgument_Transformed(p) ==
    IF hist[p].exhausted
    THEN RequestData(EventData(event[p]))
    ELSE EventData(event[p])

\* The dict send_to_sqs is called with.
SqsArgument(p) == EventData(event[p])

\* AfterSend with a failed enqueue tried again by the handler.
AfterSend_Requeue(ok) == IF ok THEN "done" ELSE "sqs"

\* Where the invocation goes after sqs.send_message: the response is
\* returned, or the error reaches lambda_handler's handler, which answers 500.
AfterSend(ok) == "done"

\* send_to_sqs: sqs.send_message succeeds, or raises and lambda_handler
\* answers 500.
SendToSqs(p) ==
    /\ pc[p] = "sqs"
    /\ \E ok \in BOOLEAN :
          /\ hist' = [hist EXCEPT
                ![p].sends = @ + 1,
                ![p].sent = Append(@, Message(SqsArgument(p))),
                ![p].raised = IF ok THEN @ ELSE "SendMessageError"]
          /\ response' = [response EXCEPT ![p] =
                IF ok THEN SqsResponse ELSE HandlerResponse("SendMessageError")]
          /\ pc' = [pc EXCEPT ![p] = AfterSend(ok)]
    /\ UNCHANGED <<shared, event, server_url, retry, chk>>

\* send_to_fastapi returns the direct response.
Respond(p) ==
    /\ pc[p] = "respond"
    /\ response' = [response EXCEPT ![p] = ResponseAfterCheck(chk[p])]
    /\ pc' = [pc EXCEPT ![p] = "done"]
    /\ UNCHANGED <<shared, event, server_url, retry, chk, hist>>

\* The invocation is over; the execution context takes the next event.
Finish(p) ==
    /\ pc[p] = "done"
    /\ pc' = [pc EXCEPT ![p] = "idle"]
    /\ event' = [event EXCEPT ![p] = NoEvent]
    /\ server_url' = [server_url EXCEPT ![p] = <<>>]
    /\ retry' = [retry EXCEPT ![p] = NoRetry]
    /\ chk' = [chk EXCEPT ![p] = NoCheck]
    /\ response' = [response EXCEPT ![p] = NoResponse]
    /\ hist' = [hist EXCEPT ![p] = NoHist]
    /\ UNCHANGED shared

(* -------------------------- object listings ---------------------------- *)

\* The rank of a token in byte order: '-' < '.' < '/' < digits < letters.
LetterTokens ==
    <<"a", "audio", "chunk-", "metadata", "s1", "sessions", "transcriptions",
      "transcripts", "u1", "uploads", "users", "x">>

TokRank(t) ==
    CASE t = "-" -> 0
      [] t = ".json" -> 1
      [] t = ".wav" -> 2
      [] t = ".webm" -> 3
      [] t = "/" -> 4
      [] IsDigits(t) -> 5 + IntOf(t)
      [] OTHER -> 6 + NChunks
                  + (CHOOSE i \in 1..Len(LetterTokens) : LetterTokens[i] = t)

RECURSIVE Flatten(_)
Flatten(key) ==
    IF key = <<>> THEN <<>>
    ELSE IF Len(key) = 1 THEN key[1]
    ELSE key[1] \o <<"/">> \o Flatten(Tail(key))

RECURSIVE LexLess(_, _)
LexLess(a, b) ==
    IF b = <<>> THEN FALSE
    ELSE IF a = <<>> THEN TRUE
    ELSE IF a[1] = b[1] THEN LexLess(Tail(a), Tail(b))
    ELSE TokRank(a[1]) < TokRank(b[1])

KeyLess(k1, k2) == LexLess(Flatten(k1), Flatten(k2))

\* The keys of a set in key order, as list_objects_v2 returns them.
RECURSIVE InKeyOrder(_)
InKeyOrder(S) ==
    IF S = {} THEN <<>>
    ELSE LET first == CHOOSE k \in S : \A o \in S \ {k} : KeyLess(k, o)
         IN <<first>> \o InKeyOrder(S \ {first})

\* s3.list_objects_v2(Prefix=prefix)['Contents']
ListObjects(store, prefix) == InKeyOrder({k \in store : HasPrefix(k, prefix)})

\* re.search(r'chunk-(\d+)\.json$', key)
MatchesChunk(key) ==
    LET last == key[Len(key)]
        n == Len(last)
    IN /\ n >= 3
       /\ last[n] = ".json"
       /\ IsDigits(last[n - 1])
       /\ last[n - 2] = "chunk-"

\* int(match.group(1))
ChunkNumber(key) == LET last == key[Len(key)] IN IntOf(last[Len(last) - 1])

\* The entries appended to chunk_files for one listing.
RECURSIVE ChunkFiles(_)
ChunkFiles(listing) ==
    IF listing = <<>> THEN <<>>
    ELSE (IF MatchesChunk(listing[1])
          THEN <<[key |-> listing[1], chunk_number |-> ChunkNumber(listing[1])]>>
          ELSE <<>>) \o ChunkFiles(Tail(listing))

\* list.sort(key=lambda x: x['chunk_number']): a stable sort.
RECURSIVE InsertByNumber(_, _)
InsertByNumber(sorted, f) ==
    IF sorted = <<>> THEN <<f>>
    ELSE IF sorted[Len(sorted)].chunk_number <= f.chunk_number
    THEN Append(sorted, f)
    ELSE Append(InsertByNumber(SubSeq(sorted, 1, Len(sorted) - 1), f),
                sorted[Len(sorted)])

RECURSIVE SortByNumber(_)
SortByNumber(files) ==
    IF files = <<>> THEN <<>>
    ELSE InsertByNumber(SortByNumber(SubSeq(files, 1, Len(files) - 1)),
                        files[Len(files)])

(* ------------------------- completion detector ------------------------- *)

\* The invocation's user and session, parsed from its key.
UserOf(p) == UserId(S3KeyOf(EventData(event[p])))
SessionOf(p) == SessionId(S3KeyOf(EventData(event[p])))

\* What a get, list or put on the object store may do.
StoreOutcomes == {"ok", "error"}

\* check_session_completion returns ret to send_to_fastapi: its locals are
\* gone, what is kept is whether it wrote the session transcript.
Returned(c, ret) ==
    [NoCheck EXCEPT !.ret = ret, !.head = c.head, !.failed = c.failed,
                    !.wrote = c.wrote]

\* An error is caught (and logged) by check_session_completion or by
\* trigger_session_combination, which then returns False.
Failed(c) == Returned([c EXCEPT !.failed = TRUE], "false")

\* HasExpected with the test for a chunk count of 0 left out.
HasExpected_Always(expected_chunks) == TRUE

\* Whether the metadata lets the check go on to count the transcripts.
HasExpected(expected_chunks) == expected_chunks /= 0

\* s3.get_object of metadata.json and the read of chunkCount.
GetMeta(p) ==
    /\ pc[p] = "meta"
    /\ \E out \in StoreOutcomes :
          IF out = "ok" /\ meta /= <<>> /\ HasExpected(meta[1])
          THEN /\ chk' = [chk EXCEPT ![p].expected = meta[1]]
               /\ pc' = [pc EXCEPT ![p] = "list"]
          ELSE /\ chk' = [chk EXCEPT ![p] =
                             IF out = "ok" THEN Returned(@, "false") ELSE Failed(@)]
               /\ pc' = [pc EXCEPT ![p] = "respond"]
    /\ UNCHANGED <<shared, event, server_url, retry, response, hist>>

\* AllTranscribed with the comparison off by one.
AllTranscribed_OffByOne(existing_transcripts, expected_chunks) ==
    existing_transcripts + 1 >= expected_chunks

\* if existing_transcripts >= expected_chunks
AllTranscribed(existing_transcripts, expected_chunks) ==
    existing_transcripts >= expected_chunks

\* The count of the transcripts under users/{u}/transcripts/{s}-chunk-.
ListChunks(p) ==
    /\ pc[p] = "list"
    /\ \E out \in StoreOutcomes :
          LET existing == Len(ListObjects(objects,
                                ChunkPrefix(UserOf(p), "transcripts", SessionOf(p))))
          IN IF out = "ok" /\ AllTranscribed(existing, chk[p].expected)
             THEN /\ chk' = [chk EXCEPT ![p].existing = existing]
                  /\ pc' = [pc EXCEPT ![p] = "head_session"]
             ELSE /\ chk' = [chk EXCEPT ![p] =
                                IF out = "ok" THEN Returned(@, "false") ELSE Failed(@)]
                  /\ pc' = [pc EXCEPT ![p] = "respond"]
    /\ UNCHANGED <<shared, event, server_url, retry, response, hist>>

\* ShouldCombine with any failure of head_object taken for absence.
ShouldCombine_AnyFailure(out) == out /= "ok"

\* Whether the check goes on to the combination after head_object.
ShouldCombine(out) == out = "NoSuchKey"

\* s3.head_object of the session transcript.
HeadSession(p) ==
    /\ pc[p] = "head_session"
    /\ \E out \in HeadOutcomes(sessionObj /= <<>>) :
          IF ShouldCombine(out)
          THEN /\ chk' = [chk EXCEPT ![p].files = <<>>, ![p].head = out]
               /\ pc' = [pc EXCEPT ![p] = "list_transcripts"]
          ELSE /\ chk' = [chk EXCEPT ![p] =
                             IF out = "ok"
                             THEN Returned([@ EXCEPT !.head = out], "false")
                             ELSE Failed([@ EXCEPT !.head = out])]
               /\ pc' = [pc EXCEPT ![p] = "respond"]
    /\ UNCHANGED <<shared, event, server_url, retry, response, hist>>

\* trigger_session_combination: the listing of the first prefix.
ListTranscripts(p) ==
    /\ pc[p] = "list_transcripts"
    /\ \E out \in StoreOutcomes :
          chk' = [chk EXCEPT
             ![p].files =
                IF out = "ok"
                THEN @ \o ChunkFiles(ListObjects(objects,
                             ChunkPrefix(UserOf(p), "transcripts", SessionOf(p))))
                ELSE @,
             ![p].failed = @ \/ out = "error"]
    /\ pc' = [pc EXCEPT ![p] = "list_transcriptions"]
    /\ UNCHANGED <<shared, event, server_url, retry, response, hist>>

\* The listing of the second prefix, the sort, and the empty check.
ListTranscriptions(p) ==
    /\ pc[p] = "list_transcriptions"
    /\ \E out \in StoreOutcomes :
          LET found == IF out = "ok"
                       THEN chk[p].files \o ChunkFiles(ListObjects(objects,
                               ChunkPrefix(UserOf(p), "transcriptions", SessionOf(p))))
                       ELSE chk[p].files
              c == [chk[p] EXCEPT !.failed = @ \/ out = "error"]
          IN IF found = <<>>
             THEN /\ chk' = [chk EXCEPT ![p] = Returned(c, "false")]
                  /\ pc' = [pc EXCEPT ![p] = "respond"]
             ELSE /\ chk' = [chk EXCEPT ![p] =
                                [c EXCEPT !.files = SortByNumber(found),
                                          !.transcripts = <<>>,
                                          !.next = 1]]
                  /\ pc' = [pc EXCEPT ![p] = "download"]
    /\ UNCHANGED <<shared, event, server_url, retry, response, hist>>

\* One iteration of the download loop; after the last one, the check that
\* something was downloaded.
Download(p) ==
    /\ pc[p] = "download"
    /\ \E out \in StoreOutcomes :
          LET c == [chk[p] EXCEPT !.failed = @ \/ out = "error"]
              got == IF out = "ok"
                     THEN Append(c.transcripts, c.files[c.next])
                     ELSE c.transcripts
          IN IF c.next < Len(c.files)
             THEN /\ chk' = [chk EXCEPT ![p] =
                                [c EXCEPT !.transcripts = got, !.next = @ + 1]]
                  /\ pc' = pc
             ELSE IF got = <<>>
             THEN /\ chk' = [chk EXCEPT ![p] = Returned(c, "false")]
                  /\ pc' = [pc EXCEPT ![p] = "respond"]
             ELSE /\ chk' = [chk EXCEPT ![p] = [c EXCEPT !.transcripts = got]]
                  /\ pc' = [pc EXCEPT ![p] = "put"]
    /\ UNCHANGED <<shared, event, server_url, retry, response, hist>>

\* The downloaded transcripts are kept by the file they came from;
\* get_object gives contents[key].  The session transcript that is written is
\* body; the indices and keys of the chunks it was made of are kept with it.
Combined(chunk_transcripts) ==
    [total_chunks |-> Len(chunk_transcripts),
     chunk_numbers |-> [i \in 1..Len(chunk_transcripts) |->
                           chunk_transcripts[i].chunk_number],
     keys |-> [i \in 1..Len(chunk_transcripts) |-> chunk_transcripts[i].key],
     body |-> CombineAll([i \in 1..Len(chunk_transcripts) |->
                             contents[chunk_transcripts[i].key]])]

\* The combination and s3.put_object of the session transcript, an
\* unconditional write.  An exception raised while combining or by put_object
\* is caught and False is returned.
PutSession(p) ==
    /\ pc[p] = "put"
    /\ \E out \in StoreOutcomes :
          IF out = "ok"
          THEN /\ sessionObj' = <<Combined(chk[p].transcripts)>>
               /\ sessionWrites' = sessionWrites + 1
               /\ chk' = [chk EXCEPT ![p] = Returned([@ EXCEPT !.wrote = TRUE], "true")]
          ELSE /\ chk' = [chk EXCEPT ![p] = Failed(@)]
               /\ UNCHANGED <<sessionObj, sessionWrites>>
    /\ pc' = [pc EXCEPT ![p] = "respond"]
    /\ UNCHANGED <<meta, objects, contents, event, server_url, retry, response, hist>>

(* ------------------------ combination utility -------------------------- *)

\* scripts/combine-session-transcripts.py, run as
\* process_session(Bucket, User, Session); its locals are kept in chk.

\* find_chunk_transcripts: the listings of both prefixes (an error of a
\* listing is printed and the loop goes on), the regex and the sort; then
\* process_session returns when nothing was found.
ScriptFind(p) ==
    /\ pc[p] = "script_find"
    /\ \E out1 \in StoreOutcomes, out2 \in StoreOutcomes :
          LET found1 == IF out1 = "ok"
                        THEN ChunkFiles(ListObjects(objects,
                                ChunkPrefix(User, "transcripts", Session)))
                        ELSE <<>>
              found2 == IF out2 = "ok"
                        THEN ChunkFiles(ListObjects(objects,
                                ChunkPrefix(User, "transcriptions", Session)))
                        ELSE <<>>
              chunk_files == SortByNumber(found1 \o found2)
          IN /\ chk' = [chk EXCEPT ![p] =
                          [NoCheck EXCEPT !.files = chunk_files,
                                          !.failed = out1 = "error" \/ out2 = "error"]]
             /\ pc' = [pc EXCEPT ![p] =
                          IF chunk_files = <<>> THEN "script_done"
                          ELSE "script_download"]
    /\ UNCHANGED <<shared, event, server_url, retry, response, hist>>

\* One iteration of the download loop: download_transcript returns {} on an
\* error, and only a non-empty transcript is appended; after the last one,
\* process_session returns when nothing was downloaded.
ScriptDownload(p) ==
    /\ pc[p] = "script_download"
    /\ \E out \in StoreOutcomes :
          LET c == [chk[p] EXCEPT !.failed = @ \/ out = "error"]
              file == c.files[c.next]
              got == IF out = "ok" /\ DOMAIN contents[file.key] /= {}
                     THEN Append(c.transcripts, file)
                     ELSE c.transcripts
          IN /\ chk' = [chk EXCEPT ![p] =
                          [c EXCEPT !.transcripts = got,
                                    !.next = IF @ < Len(c.files) THEN @ + 1 ELSE @]]
             /\ pc' = [pc EXCEPT ![p] =
                          IF c.next < Len(c.files) THEN "script_download"
                          ELSE IF got = <<>> THEN "script_done"
                          ELSE "script_save"]
    /\ UNCHANGED <<shared, event, server_url, retry, response, hist>>

\* What the utility saves: combine_transcripts of the downloaded transcripts.
ScriptCombined(chunk_transcripts) ==
    [Combined(chunk_transcripts) EXCEPT
        !.body = combine_transcripts([i \in 1..Len(chunk_transcripts) |->
                                         contents[chunk_transcripts[i].key]])]

\* combine_transcripts and save_session_transcript: s3.put_object of the
\* session key, with no look at what is there; an error of the put is printed.
ScriptSave(p) ==
    /\ pc[p] = "script_save"
    /\ \E out \in StoreOutcomes :
          IF out = "ok" /\ ScriptCombined(chk[p].transcripts).body /= <<>>
          THEN /\ sessionObj' = <<ScriptCombined(chk[p].transcripts)>>
               /\ sessionWrites' = sessionWrites + 1
               /\ chk' = [chk EXCEPT ![p].wrote = TRUE]
          ELSE /\ chk' = [chk EXCEPT ![p].failed = TRUE]
               /\ UNCHANGED <<sessionObj, sessionWrites>>
    /\ pc' = [pc EXCEPT ![p] = "script_done"]
    /\ UNCHANGED <<meta, objects, contents, event, server_url, retry, response, hist>>

(* ----------------------------- environment ----------------------------- *)

\* Another writer (the batch consumer) puts a chunk transcript.
EnvPut(k) ==
    /\ k \in EnvKeys \ objects
    /\ objects' = objects \cup {k}
    /\ UNCHANGED <<meta, sessionObj, sessionWrites, contents, locals>>

(* ---------------------------- specification ---------------------------- *)

\* The steps of the invocations on the execution contexts P, context p
\* receiving events of E[p].
RouterStep(P, E) ==
    \/ \E p \in P : \E ev \in E[p] : Invoke(p, ev)
    \/ \E p \in P : Discover(p)
    \/ \E p \in P : HealthCheck(p)
    \/ \E p \in P : SendToFastapi(p)
    \/ \E p \in P : HeadChunk(p)
    \/ \E p \in P : RetryAttempt(p)
    \/ \E p \in P : GetMeta(p)
    \/ \E p \in P : ListChunks(p)
    \/ \E p \in P : HeadSession(p)
    \/ \E p \in P : ListTranscripts(p)
    \/ \E p \in P : ListTranscriptions(p)
    \/ \E p \in P : Download(p)
    \/ \E p \in P : PutSession(p)
    \/ \E p \in P : Respond(p)
    \/ \E p \in P : SendToSqs(p)
    \/ \E p \in P : Finish(p)

AnyEvent == [p \in Procs |-> Events]

\* One invocation at a time, any request, any other writer.
Next ==
    \/ RouterStep({1}, AnyEvent)
    \/ \E k \in EnvKeys : EnvPut(k)

Spec == Init /\ [][Next]_vars

\* Concurrent invocations, one for each chunk of the session as it is
\* uploaded: execution context p receives the events of chunk ChunkOf(p),
\* again and again (the trigger may deliver an upload more than once).
ChunkOf(p) == ((p - 1) % NChunks) + 1

ChunkEvent ==
    [p \in Procs |-> {FlatEvent(SourceKey(ChunkOf(p), ".webm"), FALSE)}]

NextConc == RouterStep(Procs, ChunkEvent)

SpecConc == Init /\ [][NextConc]_vars

\* The requests whose key parses.
ParsedEvents ==
    {ev \in Events : /\ ~MissingLocation(EventData(ev))
                     /\ Parsed(S3KeyOf(EventData(ev)))}

\* Duplicate deliveries: the canonical output object of every request is
\* in the bucket already.
InitExisting ==
    /\ meta \in {<<>>} \cup {<<n>> : n \in 0..NChunks}
    /\ objects = {OutputKey(S3KeyOf(EventData(ev))) : ev \in ParsedEvents}
    /\ sessionObj = <<>>
    /\ sessionWrites = 0
    /\ contents = DefaultContents
    /\ pc = [p \in Procs |-> "idle"]
    /\ event = [p \in Procs |-> NoEvent]
    /\ server_url = [p \in Procs |-> <<>>]
    /\ retry = [p \in Procs |-> NoRetry]
    /\ chk = [p \in Procs |-> NoCheck]
    /\ response = [p \in Procs |-> NoResponse]
    /\ hist = [p \in Procs |-> NoHist]

SpecExisting == InitExisting /\ [][Next]_vars

\* The backoff executor on its own: one call of
\* retry_with_exponential_backoff with any parameters and any func.
InitRetry ==
    /\ meta = <<>>
    /\ objects = {}
    /\ sessionObj = <<>>
    /\ sessionWrites = 0
    /\ contents = DefaultContents
    /\ pc = [p \in Procs |-> IF p = 1 THEN "retry" ELSE "idle"]
    /\ event = [p \in Procs |-> NoEvent]
    /\ server_url = [p \in Procs |-> <<>>]
    /\ \E max_retries \in 0..MaxRetriesBound,
          base_delay \in {Seconds(1), Seconds(2)},
          max_delay \in {Seconds(2), Seconds(8), Seconds(16)},
          jitter \in BOOLEAN :
          retry = [p \in Procs |->
                     IF p = 1
                     THEN RetryCall("any", max_retries, base_delay, max_delay, jitter)
                     ELSE NoRetry]
    /\ chk = [p \in Procs |-> NoCheck]
    /\ response = [p \in Procs |-> NoResponse]
    /\ hist = [p \in Procs |-> NoHist]

NextRetry == \E p \in Procs : RetryAttempt(p)

SpecRetry == InitRetry /\ [][NextRetry]_vars

\* The combination utility run once on a bucket that holds any of the chunk
\* transcript objects, with any contents, and that may hold a session
\* transcript written before (by the router, for the first chunk alone).
EarlierSession ==
    Combined(<<[key |-> TranscriptKey(User, Session, <<"chunk-", Numeral(1)>>),
                chunk_number |-> 1]>>)

InitScript ==
    /\ meta = <<>>
    /\ objects \in SUBSET EnvKeys
    /\ contents \in [ChunkKeys -> Transcripts]
    /\ \A k \in ChunkKeys \ objects : contents[k] = DefaultContents[k]
    /\ sessionObj \in {<<>>, <<EarlierSession>>}
    /\ sessionWrites = IF sessionObj = <<>> THEN 0 ELSE 1
    /\ pc = [p \in Procs |-> IF p = 1 THEN "script_find" ELSE "idle"]
    /\ event = [p \in Procs |-> NoEvent]
    /\ server_url = [p \in Procs |-> <<>>]
    /\ retry = [p \in Procs |-> NoRetry]
    /\ chk = [p \in Procs |-> NoCheck]
    /\ response = [p \in Procs |-> NoResponse]
    /\ hist = [p \in Procs |-> NoHist]

NextScript ==
    \/ \E p \in Procs : ScriptFind(p)
    \/ \E p \in Procs : ScriptDownload(p)
    \/ \E p \in Procs : ScriptSave(p)

SpecScript == InitScript /\ [][NextScript]_vars

\* One invocation at a time on keys of every kind: a chunk as .webm and as
\* .wav, a file name that is only the extension, a key with no file name, a
\* key with an empty user, and a key outside users/.
WavKey == SourceKey(1, ".wav")

NamelessKey ==
    << <<"users">>, User, <<"audio">>, <<"sessions">>, Session, <<".webm">> >>

ShortKey == << <<"users">>, User, <<"audio">>, <<"sessions">>, Session >>

NoUserKey ==
    << <<"users">>, <<>>, <<"audio">>, <<"sessions">>, Session,
       <<"chunk-", Numeral(1), ".webm">> >>

KeyInputs ==
    {SourceKey(1, ".webm"), WavKey, NamelessKey, ShortKey, NoUserKey, ForeignKey}

KeyEvent == [p \in Procs |-> {FlatEvent(k, FALSE) : k \in KeyInputs}]

NextKeys == RouterStep({1}, KeyEvent)

SpecKeys == Init /\ [][NextKeys]_vars

\* A session of N chunks, each uploaded once and routed through the direct
\* path, the object store answering every call.  Invocation p routes chunk p.
\* A session transcript that is not there makes head_object raise: NoSuchKey,
\* or the client error the library makes of a 404 answer to a HEAD request;
\* this is the answer "not found", not a failure of the store.
Routed_Procs == {p \in Procs : meta /= <<>> /\ p <= meta[1]}

InitDirect ==
    /\ meta \in {<<n>> : n \in 1..Min(NChunks, NInvocations)}
    /\ objects = {}
    /\ sessionObj = <<>>
    /\ sessionWrites = 0
    /\ contents = DefaultContents
    /\ pc = [p \in Procs |-> "idle"]
    /\ event = [p \in Procs |-> NoEvent]
    /\ server_url = [p \in Procs |-> <<>>]
    /\ retry = [p \in Procs |-> NoRetry]
    /\ chk = [p \in Procs |-> NoCheck]
    /\ response = [p \in Procs |-> NoResponse]
    /\ hist = [p \in Procs |-> NoHist]

\* The step of invocation p leaves the direct path (the server is not found,
\* not healthy, or every attempt fails), or a call to the object store fails.
LeavesDirectPath(p) ==
    \/ pc'[p] = "sqs"
    \/ /\ chk'[p].failed
       /\ ~chk[p].failed
       /\ ~(chk'[p].head = "error" /\ chk[p].head = "none" /\ sessionObj = <<>>)

\* One step of invocation p, from the request to the response.
DirectStep(p) ==
    \/ \E ev \in ChunkEvent[p] : Invoke(p, ev)
    \/ Discover(p)
    \/ HealthCheck(p)
    \/ SendToFastapi(p)
    \/ HeadChunk(p)
    \/ RetryAttempt(p)
    \/ GetMeta(p)
    \/ ListChunks(p)
    \/ HeadSession(p)
    \/ ListTranscripts(p)
    \/ ListTranscriptions(p)
    \/ Download(p)
    \/ PutSession(p)
    \/ Respond(p)

NextDirect == \E p \in Routed_Procs : DirectStep(p) /\ ~LeavesDirectPath(p)

\* An invocation that has started runs until lambda_handler returns.
SpecDirect ==
    InitDirect /\ [][NextDirect]_vars
        /\ \A p \in Procs : WF_vars(DirectStep(p) /\ ~LeavesDirectPath(p))

(* ------------------------------- claims -------------------------------- *)

\* C1: for any session, across any interleaving of concurrent invocations
\* that run check_session_completion, the session transcript object is
\* written at most once.
C1_SessionWrittenAtMostOnce == sessionWrites <= 1

\* The pcs of trigger_session_combination.
CombinationPcs == {"list_transcripts", "list_transcriptions", "download", "put"}

\* C2: with non-overlapping calls, once the session transcript exists every
\* later call of check_session_completion (one that has not written it
\* itself) returns false and never gets to the combination or to a write,
\* whatever chunk transcripts have been added.
C2_NoRecombination ==
    /\ sessionWrites <= 1
    /\ \A p \in Procs :
          (sessionObj /= <<>> /\ ~chk[p].wrote) =>
              /\ chk[p].ret /= "true"
              /\ pc[p] \notin CombinationPcs

\* A later call found the session transcript although there are more chunk
\* transcripts in the bucket than were combined into it.
C2_Witness ==
    /\ sessionObj /= <<>>
    /\ \E p \in Procs :
          /\ pc[p] = "respond"
          /\ chk[p].head = "ok"
          /\ chk[p].ret = "false"
          /\ Len(ListObjects(objects, ChunkPrefix(User, "transcripts", Session)))
                > sessionObj[1].total_chunks

\* What "skipped" means: the skipped response and no direct call, no enqueue
\* and no completion check.
Skipped(p) ==
    /\ response[p] = SkippedResponse
    /\ hist[p].posts = 0
    /\ hist[p].sends = 0
    /\ hist[p].checks = 0

\* Whether the invocation's source path parses.
ParsedRequest(p) ==
    /\ pc[p] /= "idle"
    /\ ~MissingLocation(EventData(event[p]))
    /\ Parsed(S3KeyOf(EventData(event[p])))

\* C3 as stated: whenever the source path parses and the canonical output
\* object exists, the router returns 'skipped' with no direct call, enqueue or
\* completion check.  (Under SpecExisting the object exists from the start.)
C3_SkippedWheneverOutputExists ==
    \A p \in Procs : (pc[p] = "done" /\ ParsedRequest(p)) => Skipped(p)

\* C3 as amended: when the direct path is entered, the source path parses, the
\* canonical output object exists and the existence check does not fail, the
\* router returns 'skipped' with no direct call, enqueue or completion check,
\* on every invocation for which this is so.
C3_SkippedWhenCheckFindsOutput ==
    \A p \in Procs :
        (ParsedRequest(p) /\ hist[p].head = 1 /\ hist[p].head_out /= "error") =>
            pc[p] = "done" /\ Skipped(p)

C3_Witness ==
    \E p \in Procs :
        /\ pc[p] = "done"
        /\ ParsedRequest(p)
        /\ hist[p].head_out = "ok"
        /\ response[p] = SkippedResponse

\* C4: the direct path is entered only with force_batch false, a discovered
\* server and a health check that returned true; with force_batch the router
\* enqueues without discovery or health check; with no server, or an unhealthy
\* one, it enqueues without any direct call.
C4_DirectOnlyWhenHealthy ==
    \A p \in Procs :
        LET ed == EventData(event[p])
            h == hist[p]
        IN pc[p] /= "idle" =>
           /\ (pc[p] = "fastapi" \/ h.fastapi > 0 \/ h.head > 0 \/ h.posts > 0) =>
                 /\ ~ForceBatch(ed)
                 /\ h.discover = 1
                 /\ Truthy(server_url[p])
                 /\ h.health = 1
                 /\ h.healthy
           /\ ForceBatch(ed) =>
                 /\ h.discover = 0 /\ h.health = 0 /\ h.fastapi = 0 /\ h.posts = 0
                 /\ pc[p] \in {"sqs", "done"}
                 /\ pc[p] = "done" => h.sends = 1
           /\ (pc[p] = "done" /\ ~ForceBatch(ed)
                  /\ ~(Truthy(server_url[p]) /\ h.healthy)) =>
                 /\ h.fastapi = 0 /\ h.posts = 0
                 /\ h.sends = 1

C4_Witness ==
    \E p \in Procs :
        /\ pc[p] = "done"
        /\ hist[p].healthy
        /\ hist[p].fastapi = 1
        /\ hist[p].posts >= 1

\* The keys of the transformed direct-call request.
TransformedKeys == {"s3_input_path", "s3_output_path", "return_text"}

\* C5: when every attempt of the direct call has failed, the router falls
\* back to one enqueue, whose payload holds the original request's fields
\* unchanged and none of the transformed request's.
C5_FallbackEnqueuesOriginal ==
    \A p \in Procs :
        hist[p].exhausted =>
            /\ pc[p] \in {"sqs", "done"}
            /\ pc[p] = "done" =>
                  /\ hist[p].sends = 1
                  /\ Len(hist[p].sent) = 1
                  /\ LET body == hist[p].sent[1].body
                         ed == EventData(event[p])
                     IN /\ \A k \in DOMAIN ed : k \in DOMAIN body /\ body[k] = ed[k]
                        /\ DOMAIN body \cap TransformedKeys = {}
                        /\ body["processing_type"] = "batch"

C5_Witness ==
    \E p \in Procs :
        /\ pc[p] = "done"
        /\ hist[p].exhausted
        /\ hist[p].posts = 4
        /\ response[p] = SqsResponse

\* C6 as stated: a single invocation makes at most one direct call to the
\* inference endpoint.
C6_AtMostOneDirectCall == \A p \in Procs : hist[p].posts <= 1

\* C6 as amended: a single invocation makes at most max_retries + 1 = 4
\* direct calls, one after the other, at most one of them successful and none
\* after the successful one.
C6_AtMostFourDirectCalls ==
    \A p \in Procs :
        /\ hist[p].posts <= 3 + 1
        /\ hist[p].posts_ok <= 1
        /\ hist[p].posts_ok = 1 => pc[p] /= "retry"

C6_Witness ==
    \E p \in Procs : hist[p].posts = 4 /\ hist[p].posts_ok = 1

\* C7: a single invocation performs at most one enqueue, on every path.
C7_AtMostOneEnqueue ==
    \A p \in Procs : hist[p].sends <= 1 /\ Len(hist[p].sent) = hist[p].sends

\* The enqueue of the fallback failed: the error path after an enqueue.
C7_Witness ==
    \E p \in Procs :
        /\ pc[p] = "done"
        /\ hist[p].exhausted
        /\ hist[p].sends = 1
        /\ response[p] = ErrorResponse

\* C8: retry_with_exponential_backoff calls the operation at most
\* max_retries + 1 times; when every attempt has failed it has made exactly
\* max_retries + 1 attempts and raises; once it has returned or raised it
\* makes no further attempt.
C8_AtMostMaxRetriesPlusOne ==
    \A p \in Procs :
        LET r == retry[p] IN
        r.status /= "none" =>
            /\ r.calls <= r.max_retries + 1
            /\ r.status = "raised" => r.calls = r.max_retries + 1
            /\ r.calls = r.max_retries + 1 => r.status \in {"returned", "raised"}
            /\ r.status = "running" => r.calls = r.attempt
            /\ r.status \in {"returned", "raised"} => ~ENABLED RetryAttempt(p)

C8_Witness ==
    \E p \in Procs :
        /\ retry[p].status = "raised"
        /\ retry[p].max_retries = 3
        /\ retry[p].calls = 4

\* C9: with max_retries 3, base_delay 1, max_delay 8 and no jitter the delays
\* slept after the first three failures are 1, 2 and 4 seconds and the 4th
\* failure raises with no further delay; without jitter the delay after failed
\* attempt a is min(base_delay * 2^a, max_delay).
C9_BackoffDelays ==
    \A p \in Procs :
        LET r == retry[p] IN
        (r.status /= "none" /\ ~r.jitter) =>
            /\ \A a \in 1..Len(r.delays) :
                  r.delays[a] = Min(r.base_delay * Pow2(a - 1), r.max_delay)
            /\ r.status = "running" => Len(r.delays) = r.attempt
            /\ (r.max_retries = 3 /\ r.base_delay = Seconds(1)
                   /\ r.max_delay = Seconds(8)) =>
                  /\ Len(r.delays) <= 3
                  /\ \A a \in 1..Len(r.delays) :
                        r.delays[a] = <<Seconds(1), Seconds(2), Seconds(4)>>[a]
                  /\ r.status = "raised" =>
                        r.delays = <<Seconds(1), Seconds(2), Seconds(4)>>

C9_Witness ==
    \E p \in Procs :
        /\ retry[p].status = "raised"
        /\ ~retry[p].jitter
        /\ retry[p].max_retries = 3
        /\ retry[p].base_delay = Seconds(1)
        /\ retry[p].max_delay = Seconds(8)
        /\ retry[p].delays = <<1000, 2000, 4000>>

\* C10: once the direct call has succeeded the invocation ends with the
\* direct-success response and without an enqueue, whatever fails in the
\* completion check.
C10_DirectSuccessStands ==
    \A p \in Procs :
        hist[p].posts_ok >= 1 =>
            /\ hist[p].sends = 0
            /\ pc[p] /= "sqs"
            /\ response[p] \in {NoResponse, DirectResponse}
            /\ pc[p] = "done" => response[p] = DirectResponse

\* The completion check failed after a successful direct call.
C10_Witness ==
    \E p \in Procs :
        /\ pc[p] = "done"
        /\ hist[p].posts_ok = 1
        /\ chk[p].failed
        /\ response[p] = DirectResponse

\* C11: when the session metadata object is absent or its chunk count is 0,
\* check_session_completion returns false, never gets to count the
\* transcripts or to the combination, and no session transcript is written,
\* however many chunk transcripts are in the bucket.
C11_NoMetadataNoCombination ==
    (meta = <<>> \/ meta[1] = 0) =>
        /\ sessionWrites = 0
        /\ sessionObj = <<>>
        /\ \A p \in Procs :
              /\ chk[p].ret /= "true"
              /\ pc[p] \notin {"list", "head_session"} \cup CombinationPcs
              /\ (pc[p] = "respond" /\ hist[p].checks = 1) => chk[p].ret = "false"

\* The check returned false on a chunk count of 0 with every chunk
\* transcript of the session in the bucket.
C11_Witness ==
    /\ meta = <<0>>
    /\ Len(ListObjects(objects, ChunkPrefix(User, "transcripts", Session)))
          >= NChunks
    /\ \E p \in Procs :
          /\ pc[p] = "respond"
          /\ hist[p].checks = 1
          /\ chk[p].ret = "false"
          /\ ~chk[p].failed

\* C12: check_session_completion returns true if and only if that call wrote
\* the session transcript; and a call that found the chunk count reached
\* (it went on to head_object) while no session transcript exists combines,
\* writes the result and returns true.  With one invocation at a time, a
\* session transcript that is absent when the call returns was absent when
\* the call looked for it.
C12_TrueIffCombined ==
    \A p \in Procs :
        /\ chk[p].ret = "true" <=> chk[p].wrote
        /\ (pc[p] = "respond" /\ chk[p].head /= "none" /\ sessionObj = <<>>) =>
              chk[p].ret = "true"

\* C13: in every combined session transcript the chunk transcripts are
\* combined in strictly increasing order of the chunk index of their keys: no
\* index comes twice, under whichever prefix the objects were found.
C13_StrictlyIncreasingIndex ==
    sessionObj /= <<>> =>
        \A i, j \in 1..sessionObj[1].total_chunks :
            i < j => sessionObj[1].chunk_numbers[i] < sessionObj[1].chunk_numbers[j]

\* C14: the session transcript is write-once for the combination utility
\* too: when the session-level object exists, process_session and
\* save_session_transcript do not write it again.
C14_UtilityDoesNotOverwrite ==
    [][sessionObj /= <<>> => sessionWrites' = sessionWrites]_vars

\* The shape users/{u}/audio/sessions/{s}/{c}.<ext> with u, s and c not
\* empty, and what the claims derive from a key of that shape.
Extensions == {".webm", ".wav"}

MatchesShape(key) ==
    /\ Len(key) = 6
    /\ key[1] = <<"users">> /\ key[3] = <<"audio">> /\ key[4] = <<"sessions">>
    /\ key[2] /= <<>> /\ key[5] /= <<>>
    /\ Len(key[6]) >= 2
    /\ key[6][Len(key[6])] \in Extensions

ShapeChunk(key) == SubSeq(key[6], 1, Len(key[6]) - 1)

CanonicalOutput(key, chunk) ==
    << <<"users">>, key[2], <<"transcripts">>,
       key[5] \o <<"-">> \o chunk \o <<".json">> >>

FlatOutput(key) ==
    << <<"transcripts">> >> \o SubSeq(key, 1, Len(key) - 1)
        \o << key[Len(key)] \o <<".json">> >>

\* The key of the request an invocation is working on.
KeyOf(p) == S3KeyOf(EventData(event[p]))

Routed(p) == pc[p] /= "idle" /\ ~MissingLocation(EventData(event[p]))

\* C15 as stated: for every source key users/{u}/audio/sessions/{s}/{c}.<ext>,
\* with any extension, the router derives u, s and c and the output path
\* users/{u}/transcripts/{s}-{c}.json, where a successful direct call writes.
C15_CanonicalForAnyExtension ==
    \A p \in Procs :
        (Routed(p) /\ MatchesShape(KeyOf(p))) =>
            LET key == KeyOf(p) IN
            /\ UserId(key) = key[2]
            /\ SessionId(key) = key[5]
            /\ ChunkName(key) = ShapeChunk(key)
            /\ OutputKey(key) = CanonicalOutput(key, ShapeChunk(key))
            /\ hist[p].posts_ok = 1 =>
                  CanonicalOutput(key, ShapeChunk(key)) \in objects

\* C15 as amended: that holds for the extension .webm; with another
\* extension u and s are derived the same way, the chunk name is the whole
\* file name and the output path is users/{u}/transcripts/{s}-{c}.<ext>.json.
C15_CanonicalForWebm ==
    \A p \in Procs :
        (Routed(p) /\ MatchesShape(KeyOf(p))) =>
            LET key == KeyOf(p)
                chunk == IF key[6][Len(key[6])] = ".webm"
                         THEN ShapeChunk(key) ELSE key[6]
            IN /\ UserId(key) = key[2]
               /\ SessionId(key) = key[5]
               /\ ChunkName(key) = chunk
               /\ OutputKey(key) = CanonicalOutput(key, chunk)
               /\ hist[p].posts_ok = 1 => CanonicalOutput(key, chunk) \in objects

C15_Witness ==
    \E p \in Procs :
        /\ pc[p] = "done"
        /\ KeyOf(p) = SourceKey(1, ".webm")
        /\ hist[p].posts_ok = 1
        /\ TranscriptKey(User, Session, <<"chunk-", "1">>) \in objects

\* The pcs of check_session_completion and of the combination it triggers.
DetectorPcs == {"meta", "list", "head_session"} \cup CombinationPcs

\* C16 as stated: when the source key does not have the expected shape, the
\* router uses the fallback output path transcripts/{originalKey}.json, makes
\* no idempotency check, still attempts the direct call and never invokes the
\* completion detector.
C16_FallbackForEveryMalformedKey ==
    \A p \in Procs :
        (Routed(p) /\ ~MatchesShape(KeyOf(p)) /\ hist[p].fastapi = 1) =>
            /\ pc[p] /= "head" /\ hist[p].head = 0
            /\ pc[p] \notin DetectorPcs /\ hist[p].checks = 0
            /\ pc[p] = "done" => hist[p].posts >= 1
            /\ hist[p].posts_ok = 1 => FlatOutput(KeyOf(p)) \in objects

\* C16 as amended: when the parse leaves the user id, the session id or the
\* chunk name empty, the router uses the fallback output path, makes no
\* idempotency check and still attempts the direct call; it does not invoke
\* the completion detector when the user id or the session id is empty, and
\* does invoke it after a successful direct call when only the chunk name is.
C16_FallbackWhenParseFails ==
    \A p \in Procs :
        LET key == KeyOf(p)
            unknown == UserId(key) = <<>> \/ SessionId(key) = <<>>
        IN (Routed(p) /\ hist[p].fastapi = 1
               /\ (unknown \/ ChunkName(key) = <<>>)) =>
              /\ pc[p] /= "head" /\ hist[p].head = 0
              /\ pc[p] = "done" => hist[p].posts >= 1
              /\ hist[p].posts_ok = 1 => FlatOutput(key) \in objects
              /\ unknown => pc[p] \notin DetectorPcs /\ hist[p].checks = 0
              /\ (~unknown /\ hist[p].posts_ok = 1) => hist[p].checks = 1

\* A key outside users/ went through the direct call, with no existence
\* check and no completion check.
C16_Witness ==
    \E p \in Procs :
        /\ pc[p] = "done"
        /\ KeyOf(p) = ForeignKey
        /\ hist[p].posts_ok = 1
        /\ hist[p].head = 0
        /\ hist[p].checks = 0
        /\ response[p] = DirectResponse
        /\ FallbackKey(ForeignKey) \in objects

\* C17: lambda_handler never propagates an error: whenever an exception
\* reaches it (the request has no bucket or key, the enqueue fails, the
\* fallback enqueue after exhausted retries fails) the invocation ends with
\* the statusCode 500 response; and it ends with one of the four responses.
C17_HandlerAnswersEveryError ==
    \A p \in Procs :
        /\ response[p].method /= "raised"
        /\ hist[p].raised /= "none" =>
              pc[p] = "done" /\ response[p].statusCode = 500
        /\ (hist[p].fastapi = 1 /\ MissingLocation(EventData(event[p]))) =>
              hist[p].raised = "ValueError"
        /\ pc[p] = "done" =>
              /\ response[p] \in
                    {SkippedResponse, DirectResponse, SqsResponse, ErrorResponse}
              /\ response[p] = ErrorResponse => hist[p].raised /= "none"

\* A request with no key got as far as send_to_fastapi and was answered 500.
C17_Witness ==
    \E p \in Procs :
        /\ pc[p] = "done"
        /\ hist[p].fastapi = 1
        /\ S3KeyOf(EventData(event[p])) = <<>>
        /\ hist[p].raised = "ValueError"
        /\ response[p].statusCode = 500

\* The chunk transcripts the combination utility has combined, in the order
\* in which it combined them.
InputsOf(p) ==
    [i \in 1..Len(chk[p].transcripts) |-> contents[chk[p].transcripts[i].key]]

\* The timestamp pairs of a chunk's sub-chunks, each moved by offset.
PairsOf(chunk, offset) ==
    IF "chunks" \notin DOMAIN chunk THEN <<>>
    ELSE LET timed == SelectSeq(chunk["chunks"],
                         LAMBDA c : "timestamp" \in DOMAIN c)
         IN [i \in 1..Len(timed) |-> <<timed[i]["timestamp"][1] + offset,
                                       timed[i]["timestamp"][2] + offset>>]

\* The end of a chunk's last sub-chunk if it has one with a timestamp, else 5.
LastEndOr5(chunk) ==
    IF "chunks" \in DOMAIN chunk /\ chunk["chunks"] /= <<>>
          /\ "timestamp" \in DOMAIN chunk["chunks"][Len(chunk["chunks"])]
    THEN chunk["chunks"][Len(chunk["chunks"])]["timestamp"][2]
    ELSE 5

\* timeOffset after the first n chunks, when every chunk advances it; and
\* when a chunk with no 'chunks' field does not.
RECURSIVE OffsetAfter(_, _)
OffsetAfter(chunks, n) ==
    IF n = 0 THEN 0 ELSE OffsetAfter(chunks, n - 1) + LastEndOr5(chunks[n])

RECURSIVE OffsetAfterProcessed(_, _)
OffsetAfterProcessed(chunks, n) ==
    IF n = 0 THEN 0
    ELSE OffsetAfterProcessed(chunks, n - 1)
            + (IF "chunks" \in DOMAIN chunks[n] THEN LastEndOr5(chunks[n]) ELSE 0)

RECURSIVE PairsUpTo(_, _)
PairsUpTo(chunks, n) ==
    IF n = 0 THEN <<>>
    ELSE PairsUpTo(chunks, n - 1)
            \o PairsOf(chunks[n], OffsetAfter(chunks, n - 1))

RECURSIVE PairsUpToProcessed(_, _)
PairsUpToProcessed(chunks, n) ==
    IF n = 0 THEN <<>>
    ELSE PairsUpToProcessed(chunks, n - 1)
            \o PairsOf(chunks[n], OffsetAfterProcessed(chunks, n - 1))

\* The timestamp pairs of a combined transcript.
TimestampsOf(combined) ==
    [i \in 1..Len(combined.chunks) |-> combined.chunks[i]["timestamp"]]

\* C18 as stated: timeOffset starts at 0; every sub-chunk timestamp pair is
\* shifted by the current timeOffset; after each input chunk timeOffset
\* advances by the chunk's last sub-chunk end if present, else by 5; the
\* reported duration is the final timeOffset.
C18_OffsetAdvancesAfterEachChunk ==
    \A p \in Procs :
        (pc[p] = "script_done" /\ chk[p].wrote) =>
            LET chunks == InputsOf(p)
                combined == sessionObj[1].body
            IN /\ TimestampsOf(combined) = PairsUpTo(chunks, Len(chunks))
               /\ combined.metadata.duration = OffsetAfter(chunks, Len(chunks))

\* C18 as amended: the same, except that an input chunk with no 'chunks'
\* field is skipped and does not advance timeOffset.
C18_OffsetAdvancesAfterProcessedChunk ==
    \A p \in Procs :
        (pc[p] = "script_done" /\ chk[p].wrote) =>
            LET chunks == InputsOf(p)
                combined == sessionObj[1].body
            IN /\ TimestampsOf(combined) = PairsUpToProcessed(chunks, Len(chunks))
               /\ combined.metadata.duration
                     = OffsetAfterProcessed(chunks, Len(chunks))

\* Chunks [0,2] then [0,3] were combined: the second pair is [2,5] and the
\* duration 5.
C18_Witness ==
    \E p \in Procs :
        /\ pc[p] = "script_done"
        /\ chk[p].wrote
        /\ InputsOf(p) = <<THello, TFoo>>
        /\ TimestampsOf(sessionObj[1].body) = << <<0, 2>>, <<2, 5>> >>
        /\ sessionObj[1].body.metadata.duration = 5

\* A listing the other way round.
Reverse(listing) ==
    [i \in 1..Len(listing) |-> listing[Len(listing) + 1 - i]]

\* The combined transcript of a listing of chunk files: the sort by chunk
\* number, the downloads (all of them succeed) and the combination.
ResultOf(listing) ==
    LET chunk_files == SortByNumber(listing) IN
    combine_transcripts([i \in 1..Len(chunk_files) |-> contents[chunk_files[i].key]])

\* C19: the combined session transcript does not depend on the order in which
\* the chunk transcript objects are discovered: the chunk files found, listed
\* in sorted order and listed in reverse-sorted order, give the same result.
C19_SameResultInEitherOrder ==
    \A p \in Procs :
        pc[p] = "script_download" =>
            ResultOf(chk[p].files) = ResultOf(Reverse(chk[p].files))

\* The number of objects under the session's canonical prefix, as a call of
\* check_session_completion by p would list them now.
CountedNow(p) ==
    Len(ListObjects(objects, ChunkPrefix(UserOf(p), "transcripts", SessionOf(p))))

\* C20: check_session_completion writes a session transcript only if, in
\* that call, the number of objects listed under the canonical prefix was at
\* least the expected chunk count of the metadata; a call that lists fewer
\* returns false and writes nothing.  (Only a call that is at its put_object
\* writes; the count a call goes on with is the one it listed, and it keeps
\* it up to the write.)
C20_WritesOnlyWhenCountReached ==
    [][\A p \in Procs :
          /\ sessionWrites' /= sessionWrites =>
                \E q \in Procs : chk'[q].wrote /\ ~chk[q].wrote
          /\ (chk'[p].wrote /\ ~chk[p].wrote) =>
                /\ pc[p] = "put"
                /\ chk[p].expected = meta[1]
                /\ chk[p].existing >= chk[p].expected
          /\ (pc[p] = "list" /\ pc'[p] /= "list") =>
                IF CountedNow(p) < chk[p].expected
                THEN /\ pc'[p] = "respond"
                     /\ chk'[p].ret = "false"
                     /\ ~chk'[p].wrote
                     /\ sessionWrites' = sessionWrites
                     /\ sessionObj' = sessionObj
                ELSE pc'[p] = "head_session" => chk'[p].existing = CountedNow(p)
          /\ (pc[p] \in {"head_session"} \cup CombinationPcs
                 /\ pc'[p] \in CombinationPcs) =>
                /\ chk'[p].existing = chk[p].existing
                /\ chk'[p].expected = chk[p].expected
      ]_vars

\* A call is about to write, having listed as many objects as the metadata
\* expects.
C20_Witness ==
    \E p \in Procs :
        /\ pc[p] = "put"
        /\ meta = <<NChunks>>
        /\ chk[p].expected = NChunks
        /\ chk[p].existing >= NChunks

\* The text of a chunk transcript without the blanks around it.
TextOf(chunk) == Strip(IF "text" \in DOMAIN chunk THEN chunk["text"] ELSE <<>>)

\* The texts that are not empty, in order, with one blank between two of
\* them: of every chunk, and of the chunks that have a 'chunks' field.
RECURSIVE JoinedText(_, _)
JoinedText(chunks, n) ==
    IF n = 0 THEN <<>>
    ELSE LET before == JoinedText(chunks, n - 1)
             text == TextOf(chunks[n])
         IN IF text = <<>> THEN before
            ELSE IF before = <<>> THEN text
            ELSE before \o <<" ">> \o text

RECURSIVE JoinedTextProcessed(_, _)
JoinedTextProcessed(chunks, n) ==
    IF n = 0 THEN <<>>
    ELSE LET before == JoinedTextProcessed(chunks, n - 1)
             text == IF "chunks" \in DOMAIN chunks[n]
                     THEN TextOf(chunks[n]) ELSE <<>>
         IN IF text = <<>> THEN before
            ELSE IF before = <<>> THEN text
            ELSE before \o <<" ">> \o text

\* C21 as stated: the session text is the concatenation, in chunk-index
\* order and separated by a single space, of the non-empty text of every
\* input chunk transcript; no chunk with non-empty text is left out.
C21_TextOfEveryChunk ==
    \A p \in Procs :
        (pc[p] = "script_done" /\ chk[p].wrote) =>
            sessionObj[1].body.text = JoinedText(InputsOf(p), Len(InputsOf(p)))

\* C21 as amended: the same for the input chunk transcripts that have a
\* 'chunks' field; one that has none is left out, text and all.
C21_TextOfProcessedChunks ==
    \A p \in Procs :
        (pc[p] = "script_done" /\ chk[p].wrote) =>
            sessionObj[1].body.text
                = JoinedTextProcessed(InputsOf(p), Len(InputsOf(p)))

\* "hello world" and "foo " were combined into "hello world foo", 3 words.
C21_Witness ==
    \E p \in Procs :
        /\ pc[p] = "script_done"
        /\ chk[p].wrote
        /\ InputsOf(p) = <<THello, TFoo>>
        /\ sessionObj[1].body.text = <<"hello", " ", "world", " ", "foo">>
        /\ sessionObj[1].body.metadata.wordCount = 3

\* Every routed chunk was transcribed directly and its invocation is over.
AllRoutedDirectly ==
    \A p \in Routed_Procs : pc[p] = "done" /\ response[p] = DirectResponse

\* C22: when all N chunks of a session with expected count N > 0 went through
\* the direct path, each call wrote its chunk transcript and no storage
\* operation failed, then once all the invocations (in any interleaving) have
\* finished the session transcript object exists.
C22_CombinedWhenAllFinished ==
    AllRoutedDirectly => sessionObj /= <<>>

\* C23: whenever check_session_completion writes a session transcript, the
\* number of chunk transcripts combined into it (total_chunks) is at least
\* the expected chunk count: every object counted towards completion is also
\* found, downloaded and included by the combination.
C23_WrittenCombinationIsComplete ==
    \A p \in Procs :
        (pc[p] \in {"respond", "done"} /\ chk[p].wrote) =>
            sessionObj[1].total_chunks >= meta[1]

\* C24: when the existence check of the canonical output object fails with
\* an error other than "not found", the router neither skips nor fails: it
\* goes on to the direct transcription call as it does when the object is not
\* there (the same retry call, no response yet), and a 500 can then only come
\* from the queue.
C24_FailOpenCheck ==
    \A p \in Procs :
        hist[p].head_out = "error" =>
            /\ response[p] /= SkippedResponse
            /\ pc[p] = "retry" \/ hist[p].posts >= 1
            /\ (pc[p] = "retry" /\ hist[p].posts = 0) =>
                  retry[p] = TranscribeRetry /\ response[p] = NoResponse
            /\ response[p] = ErrorResponse =>
                  hist[p].exhausted /\ hist[p].raised = "SendMessageError"

\* The check failed with an error, and the chunk was transcribed and answered
\* as a direct success.
C24_Witness ==
    \E p \in Procs :
        /\ pc[p] = "done"
        /\ hist[p].head_out = "error"
        /\ hist[p].posts_ok = 1
        /\ response[p] = DirectResponse

\* The most chunk files a combination downloads, and a number above the
\* steps the combination has left once its listings are done.
MaxFiles == Cardinality(ChunkKeys)
AfterListings == MaxFiles + 3

\* How many steps invocation p has left at most before lambda_handler
\* returns.
StepsLeft(p) ==
    CASE pc[p] = "done" -> 0
      [] pc[p] \in {"sqs", "respond"} -> 1
      [] pc[p] = "put" -> 2
      [] pc[p] = "download" -> 3 + Len(chk[p].files) - chk[p].next
      [] pc[p] = "list_transcriptions" -> AfterListings
      [] pc[p] = "list_transcripts" -> AfterListings + 1
      [] pc[p] = "head_session" -> AfterListings + 2
      [] pc[p] = "list" -> AfterListings + 3
      [] pc[p] = "meta" -> AfterListings + 4
      [] pc[p] = "retry" ->
            AfterListings + 5 + retry[p].max_retries - retry[p].attempt
      [] pc[p] = "head" -> AfterListings + 6 + TranscribeRetry.max_retries
      [] pc[p] = "fastapi" -> AfterListings + 7 + TranscribeRetry.max_retries
      [] pc[p] = "health" -> AfterListings + 8 + TranscribeRetry.max_retries
      [] pc[p] = "discover" -> AfterListings + 9 + TranscribeRetry.max_retries
      [] OTHER -> 0

Running(p) == pc[p] \notin {"idle", "done"}

\* The invocation has its one outcome, and it is the one its calls led to.
OneOutcome(p) ==
    /\ response[p] \in {DirectResponse, SkippedResponse, SqsResponse, ErrorResponse}
    /\ response[p] = DirectResponse <=> hist[p].posts_ok = 1
    /\ response[p] = SkippedResponse <=> hist[p].head_out = "ok"
    /\ response[p] = SqsResponse <=>
          (hist[p].sends = 1 /\ hist[p].raised = "none")
    /\ response[p] = ErrorResponse <=> hist[p].raised /= "none"
    /\ response[p] \notin {DirectResponse, SkippedResponse} =>
          hist[p].sends = 1 \/ hist[p].raised = "ValueError"

\* C25: every invocation of lambda_handler ends after a bounded number of
\* steps (a running invocation can take a step, every step of it lowers
\* the steps it has left, which are never more than the bound at its start)
\* with exactly one outcome among direct success, skipped, enqueued and error;
\* a request neither transcribed directly nor skipped is enqueued or
\* answered with an error.
C25_TerminatesWithOneOutcome ==
    /\ [](\A p \in Procs :
            /\ StepsLeft(p) \in 0..(AfterListings + 9 + TranscribeRetry.max_retries)
            /\ Running(p) => ENABLED RouterStep({p}, AnyEvent)
            /\ Running(p) => response[p] = NoResponse
            /\ pc[p] = "done" => OneOutcome(p))
    /\ [][\A p \in Procs :
            Running(p) =>
                \/ StepsLeft(p)' < StepsLeft(p)
                \/ <<pc[p], retry[p], chk[p], hist[p], response[p]>>'
                      = <<pc[p], retry[p], chk[p], hist[p], response[p]>>]_vars

\* Every attempt of the direct call failed after a failed existence check,
\* and the request was enqueued.
C25_Witness ==
    \E p \in Procs :
        /\ pc[p] = "done"
        /\ hist[p].head_out = "error"
        /\ hist[p].posts = 4
        /\ hist[p].posts_ok = 0
        /\ response[p] = SqsResponse

=============================================================================
